---- MODULE Spec2Model ----
(***************************************************************************)
(* Model of the hyper-reader upload / deduplication handler                *)
(* (src/app/api/books/upload/route.ts, POST).  Every await on the          *)
(* datastore or on binary storage is one atomic step of a request; the     *)
(* requests interleave freely between those steps.                         *)
(***************************************************************************)
EXTENDS Integers, Sequences, FiniteSets, TLC

(* ---------------------------------------------------------------- bounds *)
NumReq == 2
MaxFaults == 2

Reqs == 1..NumReq

(* ---------------------------------------------------------------- inputs *)
NoUser == "anonymous"
UserOrder == <<"u1", "u2">>
Users == {UserOrder[i] : i \in 1..Len(UserOrder)}

EPUB_TYPE == "application/epub+zip"
NoFile == [name |-> <<>>, type |-> "none", bytes |-> <<>>]

Files ==
  { [name |-> <<"A", ".", "E", "P", "u", "b">>, type |-> "application/octet-stream", bytes |-> <<1>>],
    [name |-> <<"b", ".", "t", "x", "t">>, type |-> EPUB_TYPE, bytes |-> <<2>>],
    [name |-> <<"e", "p", "u", "b">>, type |-> "text/plain", bytes |-> <<2>>] }

(* ------------------------------------------------------- pure functions *)
toLowerCaseChar(c) ==
  CASE c = "A" -> "a" [] c = "B" -> "b" [] c = "E" -> "e"
    [] c = "P" -> "p" [] c = "U" -> "u" [] c = "T" -> "t" [] c = "X" -> "x"
    [] OTHER -> c

toLowerCase(s) == [i \in 1..Len(s) |-> toLowerCaseChar(s[i])]

endsWith(s, suffix) ==
  /\ Len(s) >= Len(suffix)
  /\ SubSeq(s, Len(s) - Len(suffix) + 1, Len(s)) = suffix

DotEpub == <<".", "e", "p", "u", "b">>

\* mutant: the extension is compared without lower-casing the name
ValidFileType_CaseSensitive(file) ==
  ~ (file.type # EPUB_TYPE /\ ~ endsWith(file.name, DotEpub))

\* line 30: the file passes when the declared type is the EPUB type or the
\* lower-cased name ends in ".epub"
ValidFileType(file) ==
  ~ (file.type # EPUB_TYPE /\ ~ endsWith(toLowerCase(file.name), DotEpub))

\* line 103: file.name.replace(/\.epub$/i, "")
TitleOf(name) ==
  IF endsWith(toLowerCase(name), DotEpub)
  THEN SubSeq(name, 1, Len(name) - Len(DotEpub))
  ELSE name

HexDigit(n) ==
  <<"0", "1", "2", "3", "4", "5", "6", "7", "8", "9", "a", "b", "c", "d", "e", "f">>[n + 1]

\* b.toString(16).padStart(2, "0")
HexByte(b) == <<HexDigit(b \div 16), HexDigit(b % 16)>>

RECURSIVE JoinHex(_)
JoinHex(bs) == IF bs = <<>> THEN <<>> ELSE HexByte(Head(bs)) \o JoinHex(Tail(bs))

\* crypto.subtle.digest("SHA-256", ...): a deterministic function of the bytes
\* alone, free of collisions on the inputs of the model
Digest(buf) == [i \in 1..Len(buf) |-> (buf[i] * 167 + 13 * i) % 256]

HashHex(buf) == JoinHex(Digest(buf))

\* storagePath = `books/${user.id}/${bookId}.epub`
StoragePath(user, bookId) == <<"books", user, bookId, ".epub">>

\* PostgREST .single(): the row when exactly one row matches, otherwise no
\* data (and error PGRST116)
NoRow == [id |-> 0]
Single(rows) == IF Cardinality(rows) = 1 THEN CHOOSE x \in rows : TRUE ELSE NoRow

(* ----------------------------------------------------------------- state *)
VARIABLES
  pc,          \* position of each request in POST
  req,         \* the request's input: user and file
  loc,         \* the handler's locals: existingBook, raceConditionBook
  books,       \* table "books"
  user_books,  \* table "user_books"
  epubs,       \* storage bucket "epubs"
  response,    \* the response of each request, once sent
  faults,      \* number of backend failures injected so far
  events,      \* per request: what happened to it (history)
  doneBefore,  \* per request: the requests already answered when it arrived
  page,        \* one rendering of the reading page /read/[id]
  pane,        \* the assistant pane: transcript, loading flag, stream in progress
  reader       \* the book reader: its state cells, navigator reference and loads

uploadVars == <<pc, req, loc, response, events, doneBefore>>
storeVars == <<books, user_books, epubs, faults>>
vars == <<pc, req, loc, books, user_books, epubs, response, faults, events, doneBefore,
          page, pane, reader>>

NoResponse == [status |-> 0, book_id |-> 0, duplicate |-> FALSE]
NoLoc == [existingBook |-> 0, raceConditionBook |-> 0]
NoOutcome == [kind |-> "none"]
PageIdle == [pc |-> "idle", user |-> NoUser, id |-> 0, book |-> NoRow, outcome |-> NoOutcome]

\* the (bookId, manifestPath) pairs the reader is rendered with
ReaderPairs == {<<1, "a/manifest.json">>, <<1, "b/manifest.json">>, <<2, "b/manifest.json">>}
FirstPair == <<1, "a/manifest.json">>

\* the reader after its first render with FirstPair: loading shown, no error,
\* no navigator, the effect not yet run
ReaderInit ==
  [live |-> TRUE, pair |-> FirstPair, loading |-> TRUE, error |-> FALSE,
   navigator |-> 0, loads |-> <<>>]

\* the greeting the transcript starts with, lines 51-58
Greeting ==
  [id |-> 1, role |-> "assistant",
   content |-> <<"Hello! I'm your reading assistant. I can help you understand the book, answer questions, summarize sections, and more. What would you like to know?">>]

\* a reading of Date.now() at mount; readings are far from the greeting's id
Epoch == 100

\* the pane after mount: the greeting, not loading, no handler running
PaneInit ==
  [pc |-> "idle", messages |-> <<Greeting>>, isLoading |-> FALSE, assistantMessageId |-> 0,
   buffer |-> <<>>, source |-> 0, delivered |-> 0, now |-> Epoch, turns |-> 0,
   result |-> "none", loadingOff |-> 0, nFrag |-> 0, carried |-> FALSE, sent |-> <<>>]

Init ==
  /\ pc = [r \in Reqs |-> "idle"]
  /\ req = [r \in Reqs |-> [user |-> NoUser, file |-> NoFile]]
  /\ loc = [r \in Reqs |-> NoLoc]
  /\ books = {}
  /\ user_books = {}
  /\ epubs = {}
  /\ response = [r \in Reqs |-> NoResponse]
  /\ faults = 0
  /\ events = [r \in Reqs |-> {}]
  /\ doneBefore = [r \in Reqs |-> {}]
  /\ page = PageIdle
  /\ pane = PaneInit
  /\ reader = ReaderInit

(* --------------------------------------------------------------- helpers *)
Respond(r, status, bookId, dup) ==
  /\ response' = [response EXCEPT ![r] =
                    [status |-> status, book_id |-> bookId, duplicate |-> dup]]
  /\ pc' = [pc EXCEPT ![r] = "done"]
  /\ UNCHANGED <<page, pane, reader>>

Goto(r, label) ==
  /\ pc' = [pc EXCEPT ![r] = label]
  /\ UNCHANGED <<response, page, pane, reader>>

Note(r, tags) == events' = [events EXCEPT ![r] = @ \cup tags]

\* a backend call either answers (ok) or fails; failures are bounded
Backend(ok) ==
  /\ ok \/ faults < MaxFaults
  /\ faults' = IF ok THEN faults ELSE faults + 1

BooksByChecksum(h) == {b \in books : b.file_checksum = h}
LinksOf(user, bookId) == {l \in user_books : l.user_id = user /\ l.book_id = bookId}

hashHex(r) == HashHex(req[r].file.bytes)

\* the row inserted at lines 101-109
bookData(r) ==
  [id |-> r,
   title |-> TitleOf(req[r].file.name),
   file_size |-> Len(req[r].file.bytes),
   file_checksum |-> hashHex(r),
   uploaded_by |-> req[r].user,
   storage_path |-> StoragePath(req[r].user, r),
   file_name |-> req[r].file.name]

linkRow(r, bookId) == [id |-> r, user_id |-> req[r].user, book_id |-> bookId]

(* --------------------------------------------------------------- actions *)
\* Requests and users are interchangeable: request r + 1 arrives after
\* request r, and a user not seen before is the next one of UserOrder.
ArrivalOrder(r, user) ==
  /\ \A q \in Reqs : q < r => pc[q] # "idle"
  /\ \A i, j \in 1..Len(UserOrder) :
       (user = UserOrder[j] /\ i < j) => \E q \in Reqs : req[q].user = UserOrder[i]

\* mutant: the file is looked at before the session
Validate_FileFirst(r, user, file) ==
  /\ pc[r] = "idle"
  /\ ArrivalOrder(r, user)
  /\ req' = [req EXCEPT ![r] = [user |-> user, file |-> file]]
  /\ doneBefore' = [doneBefore EXCEPT ![r] = {q \in Reqs : pc[q] = "done"}]
  /\ IF file = NoFile
     THEN Respond(r, 400, 0, FALSE)
     ELSE IF user = NoUser
     THEN Respond(r, 401, 0, FALSE)
     ELSE IF ~ ValidFileType(file)
     THEN Respond(r, 400, 0, FALSE)
     ELSE Goto(r, "checkDuplicate")
  /\ UNCHANGED <<loc, books, user_books, epubs, faults, events>>

\* lines 4-41: the request arrives; authentication, file presence, file type
Validate(r, user, file) ==
  /\ pc[r] = "idle"
  /\ ArrivalOrder(r, user)
  /\ req' = [req EXCEPT ![r] = [user |-> user, file |-> file]]
  /\ doneBefore' = [doneBefore EXCEPT ![r] = {q \in Reqs : pc[q] = "done"}]
  /\ IF user = NoUser
     THEN Respond(r, 401, 0, FALSE)
     ELSE IF file = NoFile
     THEN Respond(r, 400, 0, FALSE)
     ELSE IF ~ ValidFileType(file)
     THEN Respond(r, 400, 0, FALSE)
     ELSE Goto(r, "checkDuplicate")
  /\ UNCHANGED <<loc, books, user_books, epubs, faults, events>>

\* lines 45-60: look the fingerprint up
CheckDuplicate(r) ==
  /\ pc[r] = "checkDuplicate"
  /\ \E ok \in BOOLEAN :
       /\ Backend(ok)
       /\ IF ~ ok
          THEN /\ Respond(r, 500, 0, FALSE)
               /\ Note(r, {"checkError"})
               /\ UNCHANGED loc
          ELSE LET existingBook == Single(BooksByChecksum(hashHex(r))) IN
               /\ loc' = [loc EXCEPT ![r].existingBook = existingBook.id]
               /\ Goto(r, IF existingBook # NoRow THEN "dupLinkCheck" ELSE "insertBook")
               /\ UNCHANGED events
  /\ UNCHANGED <<req, books, user_books, epubs, doneBefore>>

\* mutant: the link lookup is skipped, the link is always inserted
DupLinkCheck_AlwaysInsert(r) ==
  /\ pc[r] = "dupLinkCheck"
  /\ \E ok \in BOOLEAN :
       /\ Backend(ok)
       /\ Goto(r, "dupLinkInsert")
       /\ Note(r, IF ok THEN {"dupPath"} ELSE {"dupPath", "linkCheckError"})
  /\ UNCHANGED <<req, loc, books, user_books, epubs, doneBefore>>

\* lines 63-71 (and 88-92 when the link is there): does the user hold a link?
DupLinkCheck(r) ==
  /\ pc[r] = "dupLinkCheck"
  /\ \E ok \in BOOLEAN :
       /\ Backend(ok)
       /\ LET existingLink == IF ok THEN Single(LinksOf(req[r].user, loc[r].existingBook))
                                    ELSE NoRow IN
          /\ IF existingLink # NoRow
             THEN Respond(r, 200, loc[r].existingBook, TRUE)
             ELSE Goto(r, "dupLinkInsert")
          /\ Note(r, IF ok THEN {"dupPath"} ELSE {"dupPath", "linkCheckError"})
  /\ UNCHANGED <<req, loc, books, user_books, epubs, doneBefore>>

\* mutant: the duplicate path answers without inserting the link
DupLinkInsert_NoInsert(r) ==
  /\ pc[r] = "dupLinkInsert"
  /\ \E ok \in BOOLEAN :
       /\ Backend(ok)
       /\ IF ok
          THEN /\ Respond(r, 200, loc[r].existingBook, TRUE)
               /\ Note(r, {"linkInserted"})
          ELSE /\ Respond(r, 500, 0, FALSE)
               /\ Note(r, {"linkError"})
  /\ UNCHANGED <<req, loc, books, user_books, epubs, doneBefore>>

\* mutant: the link is written for a new content id, not the existing one
DupLinkInsert_WrongBook(r) ==
  /\ pc[r] = "dupLinkInsert"
  /\ \E ok \in BOOLEAN :
       /\ Backend(ok)
       /\ IF ok
          THEN /\ user_books' = user_books \cup {linkRow(r, r)}
               /\ Respond(r, 200, loc[r].existingBook, TRUE)
               /\ Note(r, {"linkInserted"})
          ELSE /\ Respond(r, 500, 0, FALSE)
               /\ Note(r, {"linkError"})
               /\ UNCHANGED user_books
  /\ UNCHANGED <<req, loc, books, epubs, doneBefore>>

\* lines 72-92: insert the link of the duplicate path
DupLinkInsert(r) ==
  /\ pc[r] = "dupLinkInsert"
  /\ \E ok \in BOOLEAN :
       /\ Backend(ok)
       /\ IF ok
          THEN /\ user_books' = user_books \cup {linkRow(r, loc[r].existingBook)}
               /\ Respond(r, 200, loc[r].existingBook, TRUE)
               /\ Note(r, {"linkInserted"})
          ELSE /\ Respond(r, 500, 0, FALSE)
               /\ Note(r, {"linkError"})
               /\ UNCHANGED user_books
  /\ UNCHANGED <<req, loc, books, epubs, doneBefore>>

\* mutant: the uniqueness violation is answered 500 like any other error
InsertBook_ConflictIsFatal(r) ==
  /\ pc[r] = "insertBook"
  /\ \E ok \in BOOLEAN :
       /\ Backend(ok)
       /\ IF ~ ok
          THEN /\ Respond(r, 500, 0, FALSE)
               /\ Note(r, {"bookError"})
               /\ UNCHANGED books
          ELSE IF BooksByChecksum(hashHex(r)) # {}
          THEN /\ Respond(r, 500, 0, FALSE)
               /\ Note(r, {"conflict"})
               /\ UNCHANGED books
          ELSE /\ books' = books \cup {bookData(r)}
               /\ Goto(r, "uploadStorage")
               /\ Note(r, {"bookInserted"})
  /\ UNCHANGED <<req, loc, user_books, epubs, doneBefore>>

\* mutant: no unique index on file_checksum, every insert is accepted
InsertBook_NoUniqueIndex(r) ==
  /\ pc[r] = "insertBook"
  /\ \E ok \in BOOLEAN :
       /\ Backend(ok)
       /\ IF ~ ok
          THEN /\ Respond(r, 500, 0, FALSE)
               /\ Note(r, {"bookError"})
               /\ UNCHANGED books
          ELSE /\ books' = books \cup {bookData(r)}
               /\ Goto(r, "uploadStorage")
               /\ Note(r, {"bookInserted"})
  /\ UNCHANGED <<req, loc, user_books, epubs, doneBefore>>

\* lines 97-136, 169-175: insert the Content Record; the unique index on
\* file_checksum answers 23505 when the fingerprint is already held
InsertBook(r) ==
  /\ pc[r] = "insertBook"
  /\ \E ok \in BOOLEAN :
       /\ Backend(ok)
       /\ IF ~ ok
          THEN /\ Respond(r, 500, 0, FALSE)
               /\ Note(r, {"bookError"})
               /\ UNCHANGED books
          ELSE IF BooksByChecksum(hashHex(r)) # {}
          THEN /\ Goto(r, "raceRecheck")
               /\ Note(r, {"conflict"})
               /\ UNCHANGED books
          ELSE /\ books' = books \cup {bookData(r)}
               /\ Goto(r, "uploadStorage")
               /\ Note(r, {"bookInserted"})
  /\ UNCHANGED <<req, loc, user_books, epubs, doneBefore>>

\* lines 139-145, 169-174: after the conflict, look the fingerprint up again
RaceRecheck(r) ==
  /\ pc[r] = "raceRecheck"
  /\ \E ok \in BOOLEAN :
       /\ Backend(ok)
       /\ LET raceConditionBook == IF ok THEN Single(BooksByChecksum(hashHex(r)))
                                         ELSE NoRow IN
          /\ loc' = [loc EXCEPT ![r].raceConditionBook = raceConditionBook.id]
          /\ IF raceConditionBook # NoRow
             THEN Goto(r, "raceLinkCheck")
             ELSE Respond(r, 500, 0, FALSE)
          /\ Note(r, IF ok THEN {} ELSE {"recheckError"})
  /\ UNCHANGED <<req, books, user_books, epubs, doneBefore>>

\* lines 147-154 (and 161-165 when the link is there)
RaceLinkCheck(r) ==
  /\ pc[r] = "raceLinkCheck"
  /\ \E ok \in BOOLEAN :
       /\ Backend(ok)
       /\ LET existingLink == IF ok THEN Single(LinksOf(req[r].user, loc[r].raceConditionBook))
                                    ELSE NoRow IN
          /\ IF existingLink # NoRow
             THEN Respond(r, 200, loc[r].raceConditionBook, TRUE)
             ELSE Goto(r, "raceLinkInsert")
          /\ Note(r, IF ok THEN {} ELSE {"linkCheckError"})
  /\ UNCHANGED <<req, loc, books, user_books, epubs, doneBefore>>

\* lines 155-165: the insert's error is not read
RaceLinkInsert(r) ==
  /\ pc[r] = "raceLinkInsert"
  /\ \E ok \in BOOLEAN :
       /\ Backend(ok)
       /\ user_books' = IF ok THEN user_books \cup {linkRow(r, loc[r].raceConditionBook)}
                              ELSE user_books
       /\ Respond(r, 200, loc[r].raceConditionBook, TRUE)
       /\ Note(r, IF ok THEN {"linkInserted"} ELSE {"linkError"})
  /\ UNCHANGED <<req, loc, books, epubs, doneBefore>>

\* lines 180-187: write the bytes, upsert: false
UploadStorage(r) ==
  /\ pc[r] = "uploadStorage"
  /\ \E ok \in BOOLEAN :
       /\ Backend(ok)
       /\ LET path == StoragePath(req[r].user, r) IN
          IF ok /\ ~ \E o \in epubs : o.path = path
          THEN /\ epubs' = epubs \cup {[path |-> path, body |-> req[r].file.bytes]}
               /\ Goto(r, "linkBook")
               /\ Note(r, {"uploaded"})
          ELSE /\ Goto(r, "cleanupBook")
               /\ Note(r, {"uploadError"})
               /\ UNCHANGED epubs
  /\ UNCHANGED <<req, loc, books, user_books, doneBefore>>

\* mutant: the delete is filtered by uploader instead of by id
DeleteBook_ByUploader(bookId) ==
  {b \in books : \A own \in books : own.id = bookId => b.uploaded_by # own.uploaded_by}

\* delete().eq("id", bookId)
DeleteBook(bookId) == {b \in books : b.id # bookId}

\* mutant: the write failed and the record is left behind
CleanupBook_NoDelete(r) ==
  /\ pc[r] = "cleanupBook"
  /\ \E ok \in BOOLEAN :
       /\ Backend(ok)
       /\ Respond(r, 500, 0, FALSE)
       /\ Note(r, IF ok THEN {"bookDeleted"} ELSE {"bookDeleteError"})
  /\ UNCHANGED <<req, loc, books, user_books, epubs, doneBefore>>

\* lines 190-195: the write failed: delete the record, answer 500
CleanupBook(r) ==
  /\ pc[r] = "cleanupBook"
  /\ \E ok \in BOOLEAN :
       /\ Backend(ok)
       /\ books' = IF ok THEN DeleteBook(r) ELSE books
       /\ Respond(r, 500, 0, FALSE)
       /\ Note(r, IF ok THEN {"bookDeleted"} ELSE {"bookDeleteError"})
  /\ UNCHANGED <<req, loc, user_books, epubs, doneBefore>>

\* mutant: success is answered whether or not the link was written
LinkBook_ErrorIgnored(r) ==
  /\ pc[r] = "linkBook"
  /\ \E ok \in BOOLEAN :
       /\ Backend(ok)
       /\ user_books' = IF ok THEN user_books \cup {linkRow(r, r)} ELSE user_books
       /\ Respond(r, 200, r, FALSE)
       /\ Note(r, IF ok THEN {"linkInserted"} ELSE {"linkError"})
  /\ UNCHANGED <<req, loc, books, epubs, doneBefore>>

\* lines 201-208, 221-225: link the new record to its uploader
LinkBook(r) ==
  /\ pc[r] = "linkBook"
  /\ \E ok \in BOOLEAN :
       /\ Backend(ok)
       /\ IF ok
          THEN /\ user_books' = user_books \cup {linkRow(r, r)}
               /\ Respond(r, 200, r, FALSE)
               /\ Note(r, {"linkInserted"})
          ELSE /\ Goto(r, "rollbackBook")
               /\ Note(r, {"linkError"})
               /\ UNCHANGED user_books
  /\ UNCHANGED <<req, loc, books, epubs, doneBefore>>

\* line 211: the link failed: delete the record
RollbackBook(r) ==
  /\ pc[r] = "rollbackBook"
  /\ \E ok \in BOOLEAN :
       /\ Backend(ok)
       /\ books' = IF ok THEN DeleteBook(r) ELSE books
       /\ Goto(r, "rollbackStorage")
       /\ Note(r, IF ok THEN {"bookDeleted"} ELSE {"bookDeleteError"})
  /\ UNCHANGED <<req, loc, user_books, epubs, doneBefore>>

\* mutant: the object is left in the bucket
RollbackStorage_NoRemove(r) ==
  /\ pc[r] = "rollbackStorage"
  /\ \E ok \in BOOLEAN :
       /\ Backend(ok)
       /\ Respond(r, 500, 0, FALSE)
       /\ Note(r, IF ok THEN {"objectRemoved"} ELSE {"objectRemoveError"})
  /\ UNCHANGED <<req, loc, books, user_books, epubs, doneBefore>>

\* lines 212-217: then remove the object, answer 500
RollbackStorage(r) ==
  /\ pc[r] = "rollbackStorage"
  /\ \E ok \in BOOLEAN :
       /\ Backend(ok)
       /\ epubs' = IF ok THEN {o \in epubs : o.path # StoragePath(req[r].user, r)} ELSE epubs
       /\ Respond(r, 500, 0, FALSE)
       /\ Note(r, IF ok THEN {"objectRemoved"} ELSE {"objectRemoveError"})
  /\ UNCHANGED <<req, loc, books, user_books, doneBefore>>

\* mutant: an exception escapes the handler and the request stays unanswered
Throw_Unanswered(r) ==
  /\ pc[r] \notin {"idle", "done"}
  /\ Backend(FALSE)
  /\ Goto(r, "hung")
  /\ Note(r, {"thrown"})
  /\ UNCHANGED <<req, loc, books, user_books, epubs, doneBefore>>

\* lines 7, 227-236: the call the request is waiting for throws instead of
\* answering; the catch around the whole handler answers 500
Throw(r) ==
  /\ pc[r] \notin {"idle", "done"}
  /\ Backend(FALSE)
  /\ Respond(r, 500, 0, FALSE)
  /\ Note(r, {"thrown"})
  /\ UNCHANGED <<req, loc, books, user_books, epubs, doneBefore>>

\* the steps of request r after its arrival
Step(r) ==
  \/ CheckDuplicate(r)
  \/ DupLinkCheck(r)
  \/ DupLinkInsert(r)
  \/ InsertBook(r)
  \/ RaceRecheck(r)
  \/ RaceLinkCheck(r)
  \/ RaceLinkInsert(r)
  \/ UploadStorage(r)
  \/ CleanupBook(r)
  \/ LinkBook(r)
  \/ RollbackBook(r)
  \/ RollbackStorage(r)
  \/ Throw(r)

Next ==
  \/ \E r \in Reqs, user \in Users \cup {NoUser}, file \in Files \cup {NoFile} :
       Validate(r, user, file)
  \/ \E r \in Reqs : CheckDuplicate(r)
  \/ \E r \in Reqs : DupLinkCheck(r)
  \/ \E r \in Reqs : DupLinkInsert(r)
  \/ \E r \in Reqs : InsertBook(r)
  \/ \E r \in Reqs : RaceRecheck(r)
  \/ \E r \in Reqs : RaceLinkCheck(r)
  \/ \E r \in Reqs : RaceLinkInsert(r)
  \/ \E r \in Reqs : UploadStorage(r)
  \/ \E r \in Reqs : CleanupBook(r)
  \/ \E r \in Reqs : LinkBook(r)
  \/ \E r \in Reqs : RollbackBook(r)
  \/ \E r \in Reqs : RollbackStorage(r)
  \/ \E r \in Reqs : Throw(r)

Spec == Init /\ [][Next]_vars

\* every call a request waits for comes back, with an answer or an exception
Fairness == \A r \in Reqs : WF_vars(Step(r))
SpecLive == Spec /\ Fairness

(***************************************************************************)
(* The reading page, src/app/read/[id]/page.tsx (ReadBookPage).  It only   *)
(* reads the datastore; the tables hold what uploads and the manifest      *)
(* pipeline left there, duplicate Ownership Links included.                *)
(***************************************************************************)
MaxDupLinks == 2

BookIds == {1, 2}
UnknownId == 3
Manifests == {<<>>, <<"m", ".", "j", "s", "o", "n">>}

\* the rows of "books" the page selects: id, title, readium_manifest_path
PageBooks ==
  {[id |-> b, title |-> <<"t", b>>, readium_manifest_path |-> m] : b \in BookIds, m \in Manifests}

InitRead ==
  /\ pc = [r \in Reqs |-> "idle"]
  /\ req = [r \in Reqs |-> [user |-> NoUser, file |-> NoFile]]
  /\ loc = [r \in Reqs |-> NoLoc]
  /\ response = [r \in Reqs |-> NoResponse]
  /\ events = [r \in Reqs |-> {}]
  /\ doneBefore = [r \in Reqs |-> {}]
  /\ epubs = {}
  /\ faults = 0
  /\ books \in {bs \in SUBSET PageBooks : \A b1, b2 \in bs : b1.id = b2.id => b1 = b2}
  /\ \E cnt \in [Users \X BookIds -> 0..MaxDupLinks] :
       user_books = {[id |-> k, user_id |-> u, book_id |-> b] :
                       k \in 1..MaxDupLinks, u \in Users, b \in BookIds} \cap
                    {l \in [id : 1..MaxDupLinks, user_id : Users, book_id : BookIds] :
                       l.id <= cnt[<<l.user_id, l.book_id>>]}
  /\ page = PageIdle
  /\ pane = PaneInit
  /\ reader = ReaderInit

redirect(url) == [kind |-> "redirect", url |-> url]

\* lines 10-16: the session; without one, redirect to the login page
PageGetUser(user, id) ==
  /\ page.pc = "idle"
  /\ page' = IF user = NoUser
             THEN [page EXCEPT !.pc = "done", !.user = user, !.id = id,
                               !.outcome = redirect("/auth/login")]
             ELSE [page EXCEPT !.pc = "getBook", !.user = user, !.id = id]
  /\ UNCHANGED <<uploadVars, books, user_books, epubs, faults, pane, reader>>

\* lines 19-27: the Content Record by id; none or an error: redirect to "/"
PageGetBook ==
  /\ page.pc = "getBook"
  /\ \E ok \in BOOLEAN :
       /\ Backend(ok)
       /\ LET book == IF ok THEN Single({b \in books : b.id = page.id}) ELSE NoRow IN
          page' = IF book = NoRow
                  THEN [page EXCEPT !.pc = "done", !.outcome = redirect("/")]
                  ELSE [page EXCEPT !.pc = "getLink", !.book = book]
  /\ UNCHANGED <<uploadVars, books, user_books, epubs, pane, reader>>

\* lines 30-57: the Ownership Link; then the manifest path
PageGetLink ==
  /\ page.pc = "getLink"
  /\ \E ok \in BOOLEAN :
       /\ Backend(ok)
       /\ LET userBook == IF ok THEN Single(LinksOf(page.user, page.id)) ELSE NoRow IN
          page' = [page EXCEPT
                     !.pc = "done",
                     !.outcome =
                       IF userBook = NoRow
                       THEN redirect("/")
                       ELSE IF page.book.readium_manifest_path = <<>>
                       THEN [kind |-> "manifestNotFound"]
                       ELSE [kind |-> "BookReader", bookId |-> page.id,
                             manifestPath |-> page.book.readium_manifest_path,
                             title |-> page.book.title]]
  /\ UNCHANGED <<uploadVars, books, user_books, epubs, pane, reader>>

NextRead ==
  \/ \E user \in Users \cup {NoUser}, id \in BookIds \cup {UnknownId} : PageGetUser(user, id)
  \/ PageGetBook
  \/ PageGetLink

SpecRead == InitRead /\ [][NextRead]_vars

TypeOK ==
  /\ faults \in 0..MaxFaults
  /\ \A r \in Reqs : response[r].status \in {0, 200, 400, 401, 500}
  /\ \A r \in Reqs : (pc[r] = "done") <=> (response[r].status # 0)

(***************************************************************************)
(* The assistant pane, src/components/ai-agent-pane.tsx: handleSend,       *)
(* handleExplainSelection and handleStreamingResponse.  Text is a sequence *)
(* of characters; the response body arrives in chunks cut anywhere.        *)
(***************************************************************************)
MaxTurns == 1

LF == "\n"
DataPrefix == <<"d", "a", "t", "a", ":", " ">>
DoneMark == <<"[", "D", "O", "N", "E", "]">>
ContentOpen == <<"{", "\"", "c", "o", "n", "t", "e", "n", "t", "\"", ":", "\"">>
ContentClose == <<"\"", "}">>
FallbackMessage ==
  <<"Sorry, I encountered an error. Please make sure the OpenAI API key is configured correctly.">>

\* the lines a response body is made of
Fragment(text) == [kind |-> "fragment", content |-> text]
Malformed(text) == [kind |-> "malformed", content |-> text]
Blank == [kind |-> "blank", content |-> <<>>]
DoneLine == [kind |-> "done", content |-> <<>>]

LineText(l) ==
  CASE l.kind = "fragment" -> DataPrefix \o ContentOpen \o l.content \o ContentClose
    [] l.kind = "malformed" -> DataPrefix \o ContentOpen \o l.content
    [] l.kind = "done" -> DataPrefix \o DoneMark
    [] OTHER -> <<>>

RECURSIVE BodyText(_)
BodyText(ls) ==
  IF ls = <<>> THEN <<>> ELSE LineText(Head(ls)) \o <<LF>> \o BodyText(Tail(ls))

\* the response bodies of the model; cut bodies end without the last newline
Bodies ==
  << [lines |-> <<Fragment(<<"a">>), Fragment(<<"b">>), DoneLine>>, cut |-> 0],
    [lines |-> <<Fragment(<<"a">>), DoneLine>>, cut |-> 1],
    [lines |-> <<Malformed(<<"x">>), Fragment(<<"b">>), DoneLine>>, cut |-> 0],
    [lines |-> <<Fragment(<<"a">>), DoneLine, Fragment(<<"b">>)>>, cut |-> 0],
    [lines |-> <<Fragment(<<"a">>), Blank, Malformed(<<"x">>)>>, cut |-> 0] >>

\* the characters of a body; cut drops the final newline
TextOf(b) == SubSeq(BodyText(b.lines), 1, Len(BodyText(b.lines)) - b.cut)

BodyTexts == [k \in 1..Len(Bodies) |-> TextOf(Bodies[k])]

\* the part of the body in flight that no read has delivered yet
Undelivered(p) ==
  IF p.source = 0 THEN <<>>
  ELSE SubSeq(BodyTexts[p.source], p.delivered + 1, Len(BodyTexts[p.source]))

\* text.indexOf(c) from position i on; 0 when c does not occur
RECURSIVE indexOf(_, _, _)
indexOf(text, c, i) ==
  IF i > Len(text) THEN 0
  ELSE IF text[i] = c THEN i
  ELSE indexOf(text, c, i + 1)

\* buffer.split("\n")
RECURSIVE split(_)
split(text) ==
  LET i == indexOf(text, LF, 1) IN
  IF i = 0 THEN <<text>>
  ELSE <<SubSeq(text, 1, i - 1)>> \o split(SubSeq(text, i + 1, Len(text)))

startsWith(line, prefix) ==
  Len(line) >= Len(prefix) /\ SubSeq(line, 1, Len(prefix)) = prefix

\* line.slice(6)
slice(line, n) == SubSeq(line, n + 1, Len(line))

\* JSON.parse followed by parsed.content: the payloads of the model are an
\* object with a content string, an empty object, or not JSON at all
JSONParse(data) ==
  IF /\ startsWith(data, ContentOpen)
     /\ Len(data) >= Len(ContentOpen) + Len(ContentClose)
     /\ SubSeq(data, Len(data) - Len(ContentClose) + 1, Len(data)) = ContentClose
     /\ \A i \in (Len(ContentOpen) + 1)..(Len(data) - Len(ContentClose)) : data[i] # "\""
  THEN [ok |-> TRUE,
        content |-> SubSeq(data, Len(ContentOpen) + 1, Len(data) - Len(ContentClose))]
  ELSE IF data = <<"{", "}">> THEN [ok |-> TRUE, content |-> <<>>]
  ELSE [ok |-> FALSE, content |-> <<>>]

\* lines 121-129: append the fragment to the entry with the assistant's id
AppendContent(msgs, id, text) ==
  [i \in 1..Len(msgs) |->
     IF msgs[i].id = id THEN [msgs[i] EXCEPT !.content = @ \o text] ELSE msgs[i]]

\* mutant: a payload that does not parse ends the stream
OnParseError_Abort(msgs) == [messages |-> msgs, stop |-> TRUE, n |-> 0]

\* lines 132-134: the empty catch
OnParseError(msgs) == [messages |-> msgs, stop |-> FALSE, n |-> 0]

\* lines 113-136: one complete line
ProcessLine(line, msgs, id) ==
  IF ~ startsWith(line, DataPrefix) THEN [messages |-> msgs, stop |-> FALSE, n |-> 0]
  ELSE LET data == slice(line, 6) IN
       IF data = DoneMark THEN [messages |-> msgs, stop |-> TRUE, n |-> 0]
       ELSE LET parsed == JSONParse(data) IN
            IF ~ parsed.ok THEN OnParseError(msgs)
            ELSE IF parsed.content # <<>>
            THEN [messages |-> AppendContent(msgs, id, parsed.content), stop |-> FALSE, n |-> 1]
            ELSE [messages |-> msgs, stop |-> FALSE, n |-> 0]

\* line 113: for (const line of lines), left at the sentinel
RECURSIVE ProcessLines(_, _, _, _)
AfterLine(one, rest, id, n) ==
  IF one.stop THEN [messages |-> one.messages, stop |-> TRUE, n |-> n + one.n]
  ELSE ProcessLines(rest, one.messages, id, n + one.n)

ProcessLines(lines, msgs, id, n) ==
  IF lines = <<>> THEN [messages |-> msgs, stop |-> FALSE, n |-> n]
  ELSE AfterLine(ProcessLine(Head(lines), msgs, id), Tail(lines), id, n)

\* mutant: the partial last line is not kept for the next read
CarryOver_Dropped(lines) == <<>>

\* line 111: buffer = lines.pop() || ""
CarryOver(lines) == lines[Len(lines)]

\* input.trim()
RECURSIVE trim(_)
trim(text) ==
  IF text = <<>> THEN <<>>
  ELSE IF Head(text) = " " THEN trim(Tail(text))
  ELSE IF text[Len(text)] = " " THEN trim(SubSeq(text, 1, Len(text) - 1))
  ELSE text

Inputs == {<<>>, <<" ">>, <<"h", "i">>}

\* mutant: only the new prompt is submitted, without the conversation
MessagesForAPI_PromptOnly(msgs, prompt) == <<[role |-> "user", content |-> prompt]>>

\* messages.map(({role, content}) => ...) followed by the new user message
MessagesForAPI(msgs, prompt) ==
  [i \in 1..Len(msgs) |-> [role |-> msgs[i].role, content |-> msgs[i].content]]
    \o <<[role |-> "user", content |-> prompt]>>

\* the user entry and the empty assistant entry of a new interaction; the
\* clock may tick between the two Date.now() calls
StartTurn(p, shown, prompt, tick) ==
  LET userMessage == [id |-> p.now, role |-> "user", content |-> shown]
      assistantMessage == [id |-> p.now + tick + 1, role |-> "assistant", content |-> <<>>]
  IN [p EXCEPT !.messages = p.messages \o <<userMessage, assistantMessage>>,
               !.isLoading = TRUE,
               !.assistantMessageId = assistantMessage.id,
               !.now = p.now + tick,
               !.sent = MessagesForAPI(p.messages, prompt),
               !.pc = "fetch", !.buffer = <<>>, !.source = 0, !.delivered = 0,
               !.result = "none", !.loadingOff = 0, !.nFrag = 0, !.carried = FALSE,
               !.turns = p.turns + 1]

\* mutant: the fallback is shown but the loading flag stays on
OnTransportError_StillLoading(p) ==
  [p EXCEPT !.messages =
              [i \in 1..Len(p.messages) |->
                 IF p.messages[i].id = p.assistantMessageId
                 THEN [p.messages[i] EXCEPT !.content = FallbackMessage]
                 ELSE p.messages[i]],
            !.pc = "idle", !.result = "error"]

\* lines 206-220 and 386-400: the catch of both handlers
OnTransportError(p) ==
  [p EXCEPT !.messages =
              [i \in 1..Len(p.messages) |->
                 IF p.messages[i].id = p.assistantMessageId
                 THEN [p.messages[i] EXCEPT !.content = FallbackMessage]
                 ELSE p.messages[i]],
            !.isLoading = FALSE, !.loadingOff = @ + 1,
            !.pc = "idle", !.result = "error"]

PaneFrame == UNCHANGED <<uploadVars, storeVars, page, reader>>

\* mutant: Send does not look at the loading flag
Send_IgnoresLoading(input, elapsed, tick) ==
  /\ IF trim(input) = <<>>
     THEN UNCHANGED pane
     ELSE pane' = StartTurn([pane EXCEPT !.now = @ + elapsed], input, input, tick)
  /\ PaneFrame

\* lines 162-185: handleSend up to the request; a blank input or a response
\* that is loading makes it a no-op
Send(input, elapsed, tick) ==
  /\ IF trim(input) = <<>> \/ pane.isLoading
     THEN UNCHANGED pane
     ELSE pane' = StartTurn([pane EXCEPT !.now = @ + elapsed], input, input, tick)
  /\ PaneFrame

\* lines 230-284: handleExplainSelection up to the summary lookup
ExplainSelection(ready, hasPosition, elapsed) ==
  /\ IF ~ ready \/ pane.isLoading
     THEN UNCHANGED pane
     ELSE IF ~ hasPosition
     THEN pane' = [pane EXCEPT !.now = @ + elapsed, !.result = "noPosition",
                               !.loadingOff = 1, !.isLoading = FALSE, !.turns = @ + 1,
                               !.buffer = <<>>, !.source = 0, !.delivered = 0,
                               !.nFrag = 0, !.carried = FALSE]
     ELSE pane' = [pane EXCEPT !.now = @ + elapsed, !.isLoading = TRUE,
                               !.pc = "summaries", !.result = "none", !.loadingOff = 0,
                               !.buffer = <<>>, !.source = 0, !.delivered = 0,
                               !.nFrag = 0, !.carried = FALSE]
  /\ PaneFrame

\* the summary lookup (lib/position/summaries, lib/pdf-position/summaries) is
\* a query to an external store: it answers with rows or it rejects
SummaryLookupOutcomes == {"rows", "rejected"}

\* lines 258-365: the summary lookup answers, the prompt is built and the two
\* entries are added; a lookup that rejects ends the handler where it stands,
\* the await being outside the try of lines 367-400
QuerySummaries(outcome, tick) ==
  /\ pane.pc = "summaries"
  /\ pane' = IF outcome = "rows"
             THEN StartTurn(pane, <<"Explain text">>, <<"prompt">>, tick)
             ELSE [pane EXCEPT !.pc = "idle", !.result = "aborted", !.turns = @ + 1]
  /\ PaneFrame

\* lines 197-205, 93-103: the request; it rejects, answers not OK, answers
\* without a body, or answers with a body to read
Fetch(outcome, b) ==
  /\ pane.pc = "fetch"
  /\ pane' = IF outcome = "ok"
             THEN [pane EXCEPT !.pc = "read", !.buffer = <<>>,
                               !.source = b, !.delivered = 0]
             ELSE OnTransportError(pane)
  /\ PaneFrame

\* lines 105-107, 206-220: reader.read() throws
ReadError ==
  /\ pane.pc = "read"
  /\ pane' = OnTransportError(pane)
  /\ PaneFrame

\* lines 107-108, 139: the body is exhausted
ReadDone ==
  /\ pane.pc = "read"
  /\ Undelivered(pane) = <<>>
  /\ pane' = [pane EXCEPT !.isLoading = FALSE, !.loadingOff = @ + 1,
                          !.pc = "idle", !.result = "eof"]
  /\ PaneFrame

\* mutant: the sentinel ends loading but the read loop goes on
AfterChunk_NoReturn(p, out, rest, n) ==
  IF out.stop
  THEN [p EXCEPT !.messages = out.messages, !.nFrag = @ + out.n,
                 !.buffer = rest, !.delivered = @ + n, !.carried = @ \/ rest # <<>>,
                 !.isLoading = FALSE, !.loadingOff = @ + 1, !.result = "done"]
  ELSE [p EXCEPT !.messages = out.messages, !.nFrag = @ + out.n,
                 !.buffer = rest, !.delivered = @ + n, !.carried = @ \/ rest # <<>>]

\* lines 109-137: the pane after the complete lines of a chunk are processed
AfterChunk(p, out, rest, n) ==
  IF out.stop
  THEN [p EXCEPT !.messages = out.messages, !.nFrag = @ + out.n,
                 !.buffer = rest, !.delivered = @ + n, !.carried = @ \/ rest # <<>>,
                 !.isLoading = FALSE, !.loadingOff = @ + 1,
                 !.pc = "idle", !.result = "done"]
  ELSE [p EXCEPT !.messages = out.messages, !.nFrag = @ + out.n,
                 !.buffer = rest, !.delivered = @ + n, !.carried = @ \/ rest # <<>>]

\* lines 109-112: the chunk joins the buffer, which is cut into lines
OnChunk(p, lines, n) ==
  AfterChunk(p,
             ProcessLines(SubSeq(lines, 1, Len(lines) - 1), p.messages,
                          p.assistantMessageId, 0),
             CarryOver(lines), n)

\* lines 105-137: the next n characters arrive
ReadValue(n) ==
  /\ pane.pc = "read"
  /\ n \in 1..Len(Undelivered(pane))
  /\ pane' = OnChunk(pane, split(pane.buffer \o SubSeq(Undelivered(pane), 1, n)), n)
  /\ PaneFrame

\* a new interaction may start
MoreTurns(max) == pane.turns < max

NextPane ==
  \/ \E input \in Inputs, elapsed \in 0..1, tick \in 0..1 :
       MoreTurns(MaxTurns) /\ Send(input, elapsed, tick)
  \/ \E ready \in BOOLEAN, hasPosition \in BOOLEAN, elapsed \in 0..1 :
       MoreTurns(MaxTurns) /\ ExplainSelection(ready, hasPosition, elapsed)
  \/ \E outcome \in SummaryLookupOutcomes, tick \in 0..1 : QuerySummaries(outcome, tick)
  \/ \E outcome \in {"reject", "notOk", "noBody", "ok"}, b \in 1..Len(Bodies) : Fetch(outcome, b)
  \/ ReadError
  \/ ReadDone
  \/ \E n \in 1..Len(Undelivered(pane)) : ReadValue(n)

SpecPane == Init /\ [][NextPane]_vars

(***************************************************************************)
(* The same pane over several interactions.  The body arrives in chunks    *)
(* that end with a line, which keeps the transcripts of a conversation     *)
(* within reach.                                                           *)
(***************************************************************************)
MaxChatTurns == 2

\* the chunk lengths that end the chunk behind a newline or with the body
WholeLines(p) ==
  {n \in 1..Len(Undelivered(p)) : Undelivered(p)[n] = LF \/ n = Len(Undelivered(p))}

NextChat ==
  \/ \E input \in Inputs, elapsed \in 0..1, tick \in 0..1 :
       MoreTurns(MaxChatTurns) /\ Send(input, elapsed, tick)
  \/ \E ready \in BOOLEAN, hasPosition \in BOOLEAN, elapsed \in 0..1 :
       MoreTurns(MaxChatTurns) /\ ExplainSelection(ready, hasPosition, elapsed)
  \/ \E outcome \in SummaryLookupOutcomes, tick \in 0..1 : QuerySummaries(outcome, tick)
  \/ \E outcome \in {"reject", "notOk", "noBody", "ok"}, b \in 1..Len(Bodies) : Fetch(outcome, b)
  \/ ReadError
  \/ ReadDone
  \/ \E n \in WholeLines(pane) : ReadValue(n)

SpecChat == Init /\ [][NextChat]_vars

(***************************************************************************)
(* The book reader, src/unnamed/part_000: BookReader.  Each run of the     *)
(* effect of lines 20-191 starts one load (loadBook) with its own flag     *)
(* "mounted"; reader.loads keeps the loads in the order they were started  *)
(* and reader.navigator is the load whose navigator navigatorRef holds     *)
(* (0: none).  A load is suspended at its awaits: those of lines 32-100,   *)
(* between which it touches nothing of the component, are one position     *)
(* ("prepare"), the await of nav.load() at line 169 is the other           *)
(* ("navLoad").                                                            *)
(***************************************************************************)
MaxLoads == 3

\* lines 184-190: the cleanup of the effect run last clears its flag
Cleanup(loads) ==
  IF loads = <<>> THEN loads ELSE [loads EXCEPT ![Len(loads)].mounted = FALSE]

\* lines 21-24, 182: a run of the effect for pair p; the container is not
\* rendered while the error view is shown (lines 193-213)
LoadBook(rd, p) ==
  [pair |-> p, mounted |-> TRUE, pc |-> IF rd.error THEN "done" ELSE "prepare"]

\* a state setter acts on a component that is still mounted
SetLoadingOff(rd) == IF rd.live THEN [rd EXCEPT !.loading = FALSE] ELSE rd
SetErrorOn(rd) == IF rd.live THEN [rd EXCEPT !.error = TRUE] ELSE rd

\* lines 173-179: the catch block of load i
OnLoadError(rd, i) ==
  IF rd.loads[i].mounted THEN SetLoadingOff(SetErrorOn(rd)) ELSE rd

ReaderFrame == UNCHANGED <<uploadVars, storeVars, page, pane>>

\* the effect runs after the first render
Mount ==
  /\ reader.live /\ reader.loads = <<>>
  /\ reader' = [reader EXCEPT !.loads = <<LoadBook(reader, reader.pair)>>]
  /\ ReaderFrame

\* line 191: a render with another pair cleans the last effect up and runs
\* the effect again
ChangeProps(p) ==
  /\ reader.live /\ reader.loads # <<>> /\ Len(reader.loads) < MaxLoads
  /\ p # reader.pair
  /\ reader' = [reader EXCEPT !.pair = p,
                               !.loads = Append(Cleanup(@), LoadBook(reader, p))]
  /\ ReaderFrame

\* the component is removed: the cleanup of the last effect runs
Unmount ==
  /\ reader.live /\ reader.loads # <<>>
  /\ reader' = [reader EXCEPT !.live = FALSE, !.loads = Cleanup(@)]
  /\ ReaderFrame

\* lines 26-127: the awaits up to the positions finish (ok) or one of them,
\* or a check between them, throws
Prepared(i, ok) ==
  /\ i \in 1..Len(reader.loads) /\ reader.loads[i].pc = "prepare"
  /\ reader' =
       IF ok
         THEN [reader EXCEPT !.loads[i].pc =
                               IF reader.loads[i].mounted THEN "navLoad" ELSE "done"]
         ELSE [OnLoadError(reader, i) EXCEPT !.loads[i].pc = "done"]
  /\ ReaderFrame

\* lines 169-172: nav.load() resolves (ok), or rejects into the catch block
NavLoaded(i, ok) ==
  /\ i \in 1..Len(reader.loads) /\ reader.loads[i].pc = "navLoad"
  /\ reader' =
       IF ok
         THEN [SetLoadingOff(reader) EXCEPT !.navigator = i, !.loads[i].pc = "done"]
         ELSE [OnLoadError(reader, i) EXCEPT !.loads[i].pc = "done"]
  /\ ReaderFrame

NextBook ==
  \/ Mount
  \/ \E p \in ReaderPairs : ChangeProps(p)
  \/ Unmount
  \/ \E i \in 1..MaxLoads, ok \in BOOLEAN : Prepared(i, ok)
  \/ \E i \in 1..MaxLoads, ok \in BOOLEAN : NavLoaded(i, ok)

SpecBook == Init /\ [][NextBook]_vars

(* ------------------------------------------------------ claim vocabulary *)
Done(r) == pc[r] = "done"

\* the request passed the three preconditions and entered the ingestion steps
Admitted(r) == pc[r] # "idle" /\ response[r].status \notin {400, 401}

SameBytes(r1, r2) == req[r1].file.bytes = req[r2].file.bytes

\* r1 was answered before r2 arrived
Before(r1, r2) == r1 \in doneBefore[r2]
Concurrent(r1, r2) == ~ Before(r1, r2) /\ ~ Before(r2, r1)

\* the backend failures a request met itself
OwnErrors(r) ==
  events[r] \cap {"checkError", "linkCheckError", "linkError", "bookError", "recheckError",
                  "uploadError", "bookDeleteError", "objectRemoveError"}

\* every admitted request that carries the bytes of r ran alone: no two of
\* them overlapped
UploadedInSequence(r) ==
  \A q1, q2 \in Reqs :
    (q1 # q2 /\ Admitted(q1) /\ Admitted(q2) /\ SameBytes(q1, r) /\ SameBytes(q2, r))
      => (Before(q1, q2) \/ Before(q2, q1))

LinksToBook(bookId) == {l \in user_books : l.book_id = bookId}

\* C1: two different users upload identical bytes concurrently and no backend
\* call fails: once both are answered, exactly one Content Record holds the
\* fingerprint and each of the two users has an Ownership Link to it.
C1_ConcurrentFirstUploads ==
  faults = 0 =>
  \A r1, r2 \in Reqs :
    (/\ r1 # r2 /\ Admitted(r1) /\ Admitted(r2) /\ Done(r1) /\ Done(r2)
     /\ req[r1].user # req[r2].user /\ SameBytes(r1, r2)
     /\ Concurrent(r1, r2))
    => /\ Cardinality(BooksByChecksum(hashHex(r1))) = 1
       /\ \A b \in BooksByChecksum(hashHex(r1)) :
            /\ LinksOf(req[r1].user, b.id) # {}
            /\ LinksOf(req[r2].user, b.id) # {}

\* the race happened: one insert won, the other met the conflict, both answered
C1_Witness ==
  \E r1, r2 \in Reqs :
    /\ r1 # r2 /\ Done(r1) /\ Done(r2) /\ faults = 0
    /\ req[r1].user # req[r2].user /\ SameBytes(r1, r2) /\ Concurrent(r1, r2)
    /\ "bookInserted" \in events[r1] /\ "conflict" \in events[r2]
    /\ response[r1].status = 200 /\ response[r2].status = 200

\* C2 as stated: the same user uploads the same file twice in sequence (no
\* failure, no overlapping upload of these bytes): BOTH responses carry
\* duplicate=true, they carry the same book_id, and one link exists.
C2_Original ==
  faults = 0 =>
  \A r1, r2 \in Reqs :
    (/\ r1 # r2 /\ Admitted(r1) /\ Admitted(r2) /\ Done(r1) /\ Done(r2)
     /\ req[r1].user = req[r2].user /\ SameBytes(r1, r2)
     /\ Before(r1, r2) /\ UploadedInSequence(r1))
    => /\ response[r1].duplicate /\ response[r2].duplicate
       /\ response[r1].book_id = response[r2].book_id
       /\ Cardinality(LinksOf(req[r1].user, response[r1].book_id)) = 1

\* C2 amended: the second response carries duplicate=true; the first carries
\* it exactly when the record existed before (it did not insert the record
\* itself); both are 200 with the same book_id, and exactly one link exists
\* for the (user, content) pair.
C2_SameUserTwice ==
  faults = 0 =>
  \A r1, r2 \in Reqs :
    (/\ r1 # r2 /\ Admitted(r1) /\ Admitted(r2) /\ Done(r1) /\ Done(r2)
     /\ req[r1].user = req[r2].user /\ SameBytes(r1, r2)
     /\ Before(r1, r2) /\ UploadedInSequence(r1))
    => /\ response[r1].status = 200 /\ response[r2].status = 200
       /\ response[r2].duplicate
       /\ response[r1].duplicate <=> "bookInserted" \notin events[r1]
       /\ response[r1].book_id = response[r2].book_id
       /\ Cardinality(LinksOf(req[r1].user, response[r1].book_id)) = 1

\* the first upload created the record, the second one found it
C2_Witness ==
  \E r1, r2 \in Reqs :
    /\ r1 # r2 /\ Done(r1) /\ Done(r2) /\ faults = 0
    /\ req[r1].user = req[r2].user /\ SameBytes(r1, r2) /\ Before(r1, r2)
    /\ UploadedInSequence(r1)
    /\ "bookInserted" \in events[r1] /\ ~ response[r1].duplicate
    /\ "dupPath" \in events[r2] /\ response[r2].duplicate

\* C3: user A uploads, afterwards another user B uploads the same bytes (no
\* failure, no overlapping upload of these bytes): B's response is 200 with
\* duplicate=true and A's book_id, one Content Record holds the fingerprint
\* and exactly two Ownership Links point to it, one per user.
C3_SecondUserDuplicate ==
  faults = 0 =>
  \A a, b \in Reqs :
    (/\ a # b /\ Admitted(a) /\ Admitted(b) /\ Done(a) /\ Done(b)
     /\ req[a].user # req[b].user /\ SameBytes(a, b)
     /\ Before(a, b) /\ UploadedInSequence(a))
    => /\ response[b].status = 200 /\ response[b].duplicate
       /\ response[b].book_id = response[a].book_id
       /\ Cardinality(BooksByChecksum(hashHex(a))) = 1
       /\ \A rec \in BooksByChecksum(hashHex(a)) :
            /\ rec.id = response[a].book_id
            /\ Cardinality(LinksToBook(rec.id)) = 2
            /\ Cardinality(LinksOf(req[a].user, rec.id)) = 1
            /\ Cardinality(LinksOf(req[b].user, rec.id)) = 1

C3_Witness ==
  \E a, b \in Reqs :
    /\ a # b /\ Done(a) /\ Done(b) /\ faults = 0
    /\ req[a].user # req[b].user /\ SameBytes(a, b) /\ Before(a, b)
    /\ UploadedInSequence(a)
    /\ "bookInserted" \in events[a]
    /\ {"dupPath", "linkInserted"} \subseteq events[b]

\* C4: in every reachable state, whatever the interleaving and whatever
\* fails, no two Content Records hold the same fingerprint.
C4_FingerprintUnique ==
  \A b1, b2 \in books : b1.file_checksum = b2.file_checksum => b1.id = b2.id

\* a second insert of a held fingerprint was attempted and refused
C4_Witness ==
  \E r \in Reqs :
    /\ "conflict" \in events[r]
    /\ Cardinality(BooksByChecksum(hashHex(r))) = 1

\* C5: in every reachable state at most one Ownership Link exists per
\* (user, content) pair.
C5_OneLinkPerPair ==
  \A u \in Users, r \in Reqs : Cardinality(LinksOf(u, r)) <= 1

BookWithId(bookId) == {b \in books : b.id = bookId}
ObjectsOf(r) == {o \in epubs : o.path = StoragePath(req[r].user, r)}
LinkRowsOf(r) == {l \in user_books : l.id = r}

\* C6 as stated: the binary write failed after this request created its
\* Content Record: the response is 500 and the record is gone.
C6_Original ==
  \A r \in Reqs :
    (Done(r) /\ {"bookInserted", "uploadError"} \subseteq events[r])
      => /\ response[r].status = 500
         /\ BookWithId(r) = {}

\* C6 amended: the response is 500 and the record is gone unless the
\* compensating delete itself failed or threw.
C6_UploadFailureRollsBack ==
  \A r \in Reqs :
    (Done(r) /\ {"bookInserted", "uploadError"} \subseteq events[r])
      => /\ response[r].status = 500
         /\ {"bookDeleteError", "thrown"} \cap events[r] = {} => BookWithId(r) = {}

C6_Witness ==
  \E r \in Reqs :
    /\ Done(r) /\ {"bookInserted", "uploadError", "bookDeleted"} \subseteq events[r]
    /\ response[r].status = 500
    /\ BookWithId(r) = {}

\* C7 as stated: the link of newly ingested content failed: the response is
\* 500 and neither the record, nor the object, nor a link of this request
\* remains.
C7_Original ==
  \A r \in Reqs :
    (Done(r) /\ {"bookInserted", "uploaded", "linkError"} \subseteq events[r])
      => /\ response[r].status = 500
         /\ BookWithId(r) = {}
         /\ ObjectsOf(r) = {}
         /\ LinkRowsOf(r) = {}

\* C7 amended: the response is 500, no link of this request exists, and
\* unless a compensating call threw the record is gone unless its delete
\* failed and the object is gone unless its removal failed.
C7_LinkFailureRollsBack ==
  \A r \in Reqs :
    (Done(r) /\ {"bookInserted", "uploaded", "linkError"} \subseteq events[r])
      => /\ response[r].status = 500
         /\ LinkRowsOf(r) = {}
         /\ {"bookDeleteError", "thrown"} \cap events[r] = {} => BookWithId(r) = {}
         /\ {"objectRemoveError", "thrown"} \cap events[r] = {} => ObjectsOf(r) = {}

C7_Witness ==
  \E r \in Reqs :
    /\ Done(r)
    /\ {"bookInserted", "uploaded", "linkError", "bookDeleted", "objectRemoved"}
         \subseteq events[r]
    /\ response[r].status = 500
    /\ BookWithId(r) = {} /\ ObjectsOf(r) = {} /\ LinkRowsOf(r) = {}

\* C8: the insert met the uniqueness violation: unless a backend call of this
\* request failed, the response is a success; and a success carries
\* duplicate=true, the content id found by fingerprint, and the user holds a
\* link to it.
C8_ConflictTakesDuplicatePath ==
  \A r \in Reqs :
    (Done(r) /\ "conflict" \in events[r])
      => /\ OwnErrors(r) = {} => response[r].status = 200
         /\ response[r].status = 200 =>
              /\ response[r].duplicate
              /\ response[r].book_id = loc[r].raceConditionBook
              /\ response[r].book_id # 0
              /\ LinksOf(req[r].user, response[r].book_id) # {}

\* C9: a request that met a backend failure (anything but "no rows") answers
\* 500, and a request that met none is not answered 500.
C9_FailuresEscalate ==
  \A r \in Reqs :
    (Done(r) /\ Admitted(r))
      => /\ OwnErrors(r) # {} => response[r].status = 500
         /\ faults = 0 => response[r].status = 200

\* the expected verdict, read off the file alone
HasEpubExtension(name) ==
  /\ Len(name) >= 5
  /\ name[Len(name) - 4] = "."
  /\ name[Len(name) - 3] \in {"e", "E"}
  /\ name[Len(name) - 2] \in {"p", "P"}
  /\ name[Len(name) - 1] \in {"u", "U"}
  /\ name[Len(name)] \in {"b", "B"}

\* C10: an authenticated request with a file is answered 400 exactly when the
\* declared type is not the EPUB type and the name does not end in .epub
\* (any case); a rejected upload leaves no record, no object and no link.
C10_TypeValidation ==
  \A r \in Reqs :
    (pc[r] # "idle" /\ req[r].user \in Users /\ req[r].file # NoFile)
      => IF req[r].file.type # EPUB_TYPE /\ ~ HasEpubExtension(req[r].file.name)
           THEN /\ Done(r) /\ response[r].status = 400
                /\ BookWithId(r) = {} /\ ObjectsOf(r) = {} /\ LinkRowsOf(r) = {}
                /\ events[r] = {}
           ELSE response[r].status # 400

\* one upload rejected for its type, one accepted on its extension alone
C10_Witness ==
  \E r1, r2 \in Reqs :
    /\ Done(r1) /\ req[r1].user \in Users /\ req[r1].file \in Files
    /\ response[r1].status = 400
    /\ req[r2].user \in Users /\ req[r2].file \in Files
    /\ req[r2].file.type # EPUB_TYPE
    /\ response[r2].status = 200

StoresUnchanged ==
  /\ books' = books /\ user_books' = user_books /\ epubs' = epubs /\ faults' = faults

OnDuplicatePath(r) ==
  /\ Done(r)
  /\ \/ "dupPath" \in events[r]
     \/ "conflict" \in events[r] /\ loc[r].raceConditionBook # 0

ExistingBookOf(r) ==
  IF "dupPath" \in events[r] THEN loc[r].existingBook ELSE loc[r].raceConditionBook

\* C12: a request that ends on the duplicate path wrote no object, created
\* no Content Record and deleted nothing; all it may have added is one
\* Ownership Link for (user, existing content id).
C12_DuplicatePathFrame ==
  \A r \in Reqs :
    OnDuplicatePath(r)
      => /\ events[r] \cap {"bookInserted", "uploaded", "bookDeleted", "objectRemoved",
                            "uploadError", "bookDeleteError", "objectRemoveError"} = {}
         /\ BookWithId(r) = {}
         /\ ObjectsOf(r) = {}
         /\ LinkRowsOf(r) \subseteq {linkRow(r, ExistingBookOf(r))}
         /\ ExistingBookOf(r) # r
         /\ response[r].status = 200 => response[r].book_id = ExistingBookOf(r)

\* a request found the record of another one and added its own link
C12_Witness ==
  \E r \in Reqs :
    /\ OnDuplicatePath(r) /\ "linkInserted" \in events[r]
    /\ response[r].status = 200 /\ response[r].duplicate
    /\ LinkRowsOf(r) = {linkRow(r, ExistingBookOf(r))}
    /\ BookWithId(ExistingBookOf(r)) # {}

\* C17: a request answered 200 with a book_id: the requesting user holds an
\* Ownership Link to that book_id.
C17_SuccessMeansLinked ==
  \A r \in Reqs :
    (Done(r) /\ response[r].status = 200)
      => LinksOf(req[r].user, response[r].book_id) # {}

AllDone == \A r \in Reqs : Done(r)

\* C18: all requests are answered: every book_id returned with a 200 names
\* a Content Record that exists and whose object is stored at its path.
C18_ReturnedBooksExist ==
  AllDone =>
    \A r \in Reqs :
      response[r].status = 200
        => /\ BookWithId(response[r].book_id) # {}
           /\ \A b \in BookWithId(response[r].book_id) :
                \E o \in epubs : o.path = b.storage_path

\* C19: all requests are answered: every Ownership Link refers to a Content
\* Record that exists.
C19_NoDanglingLink ==
  AllDone => \A l \in user_books : BookWithId(l.book_id) # {}

\* C20: a Content Record or an object disappears only in a step of the
\* request that created it, after that request's own binary write or own
\* link insert failed.
C20_DeleteOnlyOwn ==
  [][/\ \A b \in books \ books' :
          /\ b.id \in Reqs
          /\ b.uploaded_by = req[b.id].user
          /\ "bookInserted" \in events[b.id]
          /\ pc[b.id] \in {"cleanupBook", "rollbackBook"}
          /\ pc'[b.id] # pc[b.id]
          /\ events[b.id] \cap {"uploadError", "linkError"} # {}
     /\ \A o \in epubs \ epubs' :
          \E r \in Reqs :
            /\ o.path = StoragePath(req[r].user, r)
            /\ "uploaded" \in events[r] /\ "linkError" \in events[r]
            /\ pc[r] = "rollbackStorage" /\ pc'[r] # pc[r]]_vars

\* one request rolled its record back while a record of another request of
\* the same user stayed
C20_Witness ==
  \E r, q \in Reqs :
    /\ r # q /\ req[r].user = req[q].user
    /\ "bookDeleted" \in events[r] /\ BookWithId(r) = {}
    /\ BookWithId(q) # {}

\* what the four checks of the page give, read off the tables
ExpectedOutcome(user, id) ==
  IF user = NoUser THEN redirect("/auth/login")
  ELSE IF ~ \E b \in books : b.id = id THEN redirect("/")
  ELSE IF ~ \E l \in user_books : l.user_id = user /\ l.book_id = id THEN redirect("/")
  ELSE LET b == CHOOSE x \in books : x.id = id IN
       IF b.readium_manifest_path = <<>>
       THEN [kind |-> "manifestNotFound"]
       ELSE [kind |-> "BookReader", bookId |-> id,
             manifestPath |-> b.readium_manifest_path, title |-> b.title]

\* C13: with no backend failure, the page hands (content id, manifest
\* location, title) to the renderer only if the user is authenticated, the
\* record exists, a link exists and the manifest location is not empty;
\* otherwise the outcome is that of the first failing check: login, library
\* root, library root, manifest panel.
C13_BootstrapOutcome ==
  (page.pc = "done" /\ faults = 0) => page.outcome = ExpectedOutcome(page.user, page.id)

(* ------------------------------------------------ assistant pane claims *)
\* the lines of the body in flight
SourceLines == IF pane.source = 0 THEN <<>> ELSE Bodies[pane.source].lines

\* position of the sentinel line, 0 when the body has none
SentinelAt(ls) ==
  IF \E i \in 1..Len(ls) : ls[i].kind = "done"
  THEN CHOOSE i \in 1..Len(ls) : ls[i].kind = "done" /\ \A j \in 1..(i - 1) : ls[j].kind # "done"
  ELSE 0

\* the fragments of the lines in front of the sentinel, joined in order
RECURSIVE Fragments(_)
Fragments(ls) ==
  IF ls = <<>> \/ Head(ls).kind = "done" THEN <<>>
  ELSE (IF Head(ls).kind = "fragment" THEN Head(ls).content ELSE <<>>) \o Fragments(Tail(ls))

\* a body of fragment lines closed by the sentinel
WellFormedBody(ls) ==
  /\ SentinelAt(ls) > 0
  /\ \A i \in 1..(SentinelAt(ls) - 1) : ls[i].kind = "fragment"

\* a line that is not JSON stands in front of a fragment and the sentinel
MalformedThenFragment(ls) ==
  \E i, j \in 1..Len(ls) :
    /\ i < j /\ j < SentinelAt(ls)
    /\ ls[i].kind = "malformed" /\ ls[j].kind = "fragment"

\* what has been delivered of the body, and the lines in it that are complete
DeliveredText ==
  IF pane.source = 0 THEN <<>> ELSE SubSeq(BodyTexts[pane.source], 1, pane.delivered)
CompleteLines == Cardinality({i \in 1..Len(DeliveredText) : DeliveredText[i] = LF})
PartialLine ==
  LET ends == {i \in 1..Len(DeliveredText) : DeliveredText[i] = LF}
      from == IF ends = {} THEN 0 ELSE CHOOSE i \in ends : \A j \in ends : j <= i
  IN SubSeq(DeliveredText, from + 1, Len(DeliveredText))

\* the entry in progress is the last one of the transcript
AssistantEntry == pane.messages[Len(pane.messages)]
Streaming == pane.source # 0 /\ pane.result \in {"none", "done", "eof"}
StreamEnded == pane.source # 0 /\ pane.result \in {"done", "eof"}

\* C14: for a body of well-formed fragment lines closed by the sentinel and
\* delivered in chunks cut anywhere, the assistant entry holds at every moment
\* the fragments of the complete lines delivered so far, the unfinished last
\* line waits in the buffer, and when the stream has ended the entry is the
\* concatenation of all fragments in order and loading was ended exactly once.
C14_StreamReassembled ==
  (Streaming /\ WellFormedBody(SourceLines)) =>
    /\ AssistantEntry.content = Fragments(SubSeq(SourceLines, 1, CompleteLines))
    /\ pane.pc = "read" => (pane.buffer = PartialLine /\ pane.isLoading /\ pane.loadingOff = 0)
    /\ StreamEnded =>
         /\ AssistantEntry.content = Fragments(SourceLines)
         /\ pane.loadingOff = 1 /\ ~ pane.isLoading /\ pane.pc = "idle"

\* a stream of two fragments ended by the sentinel, after a read that stopped
\* in the middle of a line
C14_Witness ==
  /\ pane.result = "done" /\ pane.carried /\ pane.nFrag = 2
  /\ WellFormedBody(SourceLines)

\* C15 as stated: on a transport failure the fallback message is appended to
\* what the assistant entry holds, and loading is ended.
C15_Original ==
  [][(pane.result # "error" /\ pane'.result = "error") =>
       /\ pane'.messages[Len(pane'.messages)].content =
            AssistantEntry.content \o FallbackMessage
       /\ ~ pane'.isLoading]_vars

\* C15: after a transport failure (the request rejects, answers not OK or
\* without a body, or a read fails in mid-stream) the assistant entry holds
\* the fallback message alone, whatever it held before, and loading has been
\* ended exactly once.
C15_FallbackReplaces ==
  pane.result = "error" =>
    /\ AssistantEntry.role = "assistant"
    /\ AssistantEntry.content = FallbackMessage
    /\ ~ pane.isLoading /\ pane.loadingOff = 1 /\ pane.pc = "idle"

\* a read failed after a fragment had been appended
C15_Witness == pane.result = "error" /\ pane.nFrag >= 1 /\ pane.source # 0

\* C16: a data line whose payload is not JSON leaves the assistant entry as
\* it is and does not end the stream: the entry holds the fragments of the
\* complete well-formed lines delivered so far, and the stream is ended by the
\* sentinel or the end of the body only.
C16_MalformedSkipped ==
  (Streaming /\ MalformedThenFragment(SourceLines)) =>
    /\ AssistantEntry.content = Fragments(SubSeq(SourceLines, 1, CompleteLines))
    /\ pane.result = "done" => CompleteLines >= SentinelAt(SourceLines)
    /\ StreamEnded => AssistantEntry.content = Fragments(SourceLines)

\* the fragment behind a malformed line was appended and the sentinel reached
C16_Witness ==
  /\ pane.result = "done" /\ pane.nFrag = 1
  /\ MalformedThenFragment(SourceLines)
  /\ AssistantEntry.content = <<"b">>

(* -------------------------------------------------- upload ordering claims *)
\* request r enters the step named label
Enters(r, label) == pc[r] # label /\ pc'[r] = label

\* C21: within one upload request the steps run in the order fingerprint,
\* duplicate lookup, record insert, binary write, link insert, success
\* response, each entered only from the one before it and only when that one
\* succeeded: the binary write starts in the step that inserted this request's
\* record, the link insert starts in the step that stored its object, and a
\* non-duplicate 200 is given in the step that wrote its link, with the
\* record, the object and the link of this request all in place.
C21_StepsInOrder ==
  [][\A r \in Reqs :
       /\ Enters(r, "checkDuplicate") => pc[r] = "idle"
       /\ Enters(r, "insertBook") =>
            /\ pc[r] = "checkDuplicate"
            /\ faults' = faults
            /\ BooksByChecksum(hashHex(r)) = {}
       /\ Enters(r, "uploadStorage") =>
            /\ pc[r] = "insertBook"
            /\ BookWithId(r) = {} /\ BookWithId(r)' # {}
       /\ Enters(r, "linkBook") =>
            /\ pc[r] = "uploadStorage"
            /\ BookWithId(r) # {}
            /\ ObjectsOf(r) = {} /\ ObjectsOf(r)' # {}
       /\ (response[r].status = 0 /\ response'[r].status = 200 /\ ~ response'[r].duplicate) =>
            /\ pc[r] = "linkBook"
            /\ response'[r].book_id = r
            /\ BookWithId(r)' # {} /\ ObjectsOf(r)' # {}
            /\ LinkRowsOf(r) = {} /\ LinkRowsOf(r)' # {}
            /\ {"bookInserted", "uploaded"} \subseteq events[r]
     ]_vars

\* a request went through all the steps and was answered 200, not a duplicate
C21_Witness ==
  \E r \in Reqs :
    /\ response[r].status = 200 /\ ~ response[r].duplicate
    /\ {"bookInserted", "uploaded", "linkInserted"} \subseteq events[r]

\* C23: every upload request that arrived is answered, under any combination
\* of backend failures and exceptions (from some moment on no request is left
\* in flight); it is answered once, the response never changes afterwards, and
\* its status is 401, 400, 500 or 200; an exception thrown by a call is
\* answered 500.
C23_OneResponse ==
  /\ <>[](\A r \in Reqs : pc[r] \in {"idle", "done"})
  /\ [](\A r \in Reqs :
          /\ pc[r] = "done" <=> response[r].status \in {401, 400, 500, 200}
          /\ pc[r] # "done" => response[r] = NoResponse
          /\ "thrown" \in events[r] => (pc[r] = "done" /\ response[r].status = 500))
  /\ [][\A r \in Reqs : pc[r] = "done" =>
          (pc'[r] = "done" /\ response'[r] = response[r])]_vars

\* one request was answered 500 after an exception, another 200
C23_Witness ==
  \E r1, r2 \in Reqs :
    /\ "thrown" \in events[r1] /\ response[r1].status = 500
    /\ response[r2].status = 200

(* ------------------------------------------------- pane interaction claims *)
\* C22: every accepted Explain-selection or Send interaction that turned the
\* loading state on turns it off again, whichever external call fails: once
\* no handler is running any more, loading is off.
C22_LoadingEnds == pane.pc = "idle" => ~ pane.isLoading

\* the sentinel of the body in flight has been processed
SentinelProcessed == pane.source # 0 /\ pane.result = "done"

\* a fragment line stands behind the sentinel
FragmentBehindSentinel(ls) ==
  \E i \in 1..Len(ls) : SentinelAt(ls) > 0 /\ i > SentinelAt(ls) /\ ls[i].kind = "fragment"

\* C24: once the sentinel line has been processed the stream is finished: the
\* assistant entry holds the fragments in front of the sentinel and none that
\* stands behind it, whether it came in the same chunk or would come in a
\* later one, no read is pending, and loading was ended once and stays off.
C24_SentinelEndsStream ==
  SentinelProcessed =>
    /\ pane.pc = "idle"
    /\ AssistantEntry.content = Fragments(SourceLines)
    /\ pane.nFrag = Cardinality({i \in 1..(SentinelAt(SourceLines) - 1) :
                                   SourceLines[i].kind = "fragment"})
    /\ pane.loadingOff = 1 /\ ~ pane.isLoading

\* the sentinel was processed in a chunk that also held the fragment line
\* behind it
C24_Witness ==
  /\ SentinelProcessed /\ FragmentBehindSentinel(SourceLines)
  /\ CompleteLines > SentinelAt(SourceLines)
  /\ AssistantEntry.content = <<"a">>

\* the step adds a user entry and an empty assistant entry behind the transcript
AddsOnePair ==
  LET old == pane.messages
      new == pane'.messages
  IN /\ Len(new) = Len(old) + 2
     /\ SubSeq(new, 1, Len(old)) = old
     /\ new[Len(old) + 1].role = "user"
     /\ new[Len(old) + 2].role = "assistant" /\ new[Len(old) + 2].content = <<>>
     /\ pane'.assistantMessageId = new[Len(old) + 2].id

ResponseStep ==
  /\ pane.pc \in {"fetch", "read"}
  /\ pane'.turns = pane.turns
  /\ pane'.messages # pane.messages

\* C26: fragment arrival and the failure fallback change only the content of
\* the assistant entry created for the current interaction, the last of the
\* transcript: its id and role, every other entry, and the length and order of
\* the transcript stay as they were.  The ids are clock readings: two
\* interactions that read the same millisecond give their assistant entries
\* the same id, and a fragment for the second is appended to the first too.
C26_OnlyCurrentEntry ==
  [][ResponseStep =>
        LET old == pane.messages
            new == pane'.messages
        IN /\ Len(new) = Len(old)
           /\ \A i \in 1..(Len(old) - 1) : new[i] = old[i]
           /\ new[Len(old)].id = old[Len(old)].id
           /\ new[Len(old)].id = pane.assistantMessageId
           /\ new[Len(old)].role = "assistant" /\ old[Len(old)].role = "assistant"
           /\ new[Len(old)].content # old[Len(old)].content
     ]_vars

\* the step issues the request of a new interaction
IssuesRequest == pane.pc # "fetch" /\ pane'.pc = "fetch"

\* C27: the list submitted to the completion service is the role and content
\* of every entry the transcript held before the interaction, in transcript
\* order, followed by one user message with the new prompt (the typed text
\* for Send, the assembled prompt for Explain-selection); the empty assistant
\* entry of the interaction is not in it.
C27_SubmittedConversation ==
  [][IssuesRequest =>
        LET before == pane.messages
            sent == pane'.sent
            n == Len(before)
        IN /\ Len(sent) = n + 1
           /\ \A i \in 1..n :
                sent[i] = [role |-> before[i].role, content |-> before[i].content]
           /\ sent[n + 1].role = "user"
           /\ sent[n + 1].content =
                (IF pane.pc = "summaries" THEN <<"prompt">> ELSE pane'.messages[n + 1].content)
           /\ sent[n + 1].content # <<>>
           /\ Len(pane'.messages) = n + 2
     ]_vars

\* the request of a second interaction carries the greeting, the two entries
\* of the first and the new prompt
C27_Witness ==
  /\ pane.pc = "fetch" /\ pane.turns = 2
  /\ Len(pane.sent) = 4 /\ Len(pane.messages) = 5
  /\ pane.sent[1].content = Greeting.content
  /\ pane.sent[3].role = "assistant" /\ pane.sent[3].content = <<"a", "b">>
  /\ pane.sent[4].role = "user"


(* -------------------------------------------------------- reader claims *)
\* load i moves on in this step
Advances(i) == reader'.loads[i].pc # reader.loads[i].pc

\* the effect that started load i has been cleaned up
CleanedUp(i) == ~ reader.loads[i].mounted

\* the last load has set its navigator up and nothing failed
LastLoadShown ==
  /\ reader.loads # <<>>
  /\ reader.loads[Len(reader.loads)].pc = "done"
  /\ reader.navigator # 0 /\ ~ reader.error

\* C28: a load whose effect has been cleaned up (an earlier pair, or the
\* component unmounted) changes neither the loading state, nor the error
\* state, nor the navigator reference when it moves on; and once the load of
\* the most recent pair has finished, the navigator reference is the one
\* that load made.
C28_StaleLoadInert ==
  /\ [][\A i \in 1..Len(reader.loads) :
          CleanedUp(i) /\ Advances(i) =>
            /\ reader'.loading = reader.loading
            /\ reader'.error = reader.error
            /\ reader'.navigator = reader.navigator]_vars
  /\ [](LastLoadShown /\ reader.live => reader.navigator = Len(reader.loads))

==============================================================================
